---- MODULE Spec2Model ----
\* A model of LFUCache<int, int> (src/LFUCache.cpp): the constructor, the
\* public members contains/empty/size/get/put and the members touch/evict
\* they call, over the two hash maps and the per-frequency key lists.
EXTENDS Integers, Sequences, FiniteSets, TLC

\* ---------------------------------------------------------------- bounds
MaxKey == 3
MaxVal == 1
MaxFreq == 3
MaxCap == 2

Keys == 1..MaxKey
Vals == 0..MaxVal
\* Arguments a caller passes to the constructor; 0 is the documented
\* ZeroCapacity case.
CapArgs == 0..MaxCap

\* ------------------------------------------------------- program constants
\* V() for V = int.
DefaultVal == 0
\* Width of size_t (LP64).
SizeTBits == 64
\* The argument of the documented NegativeCapacity case, LFUCache<int, int>(-1).
NegativeCapacity == -1

\* ------------------------------------------------------------------ size_t
\* A size_t value is kept as SizeTBits/16 limbs of 16 bits, least
\* significant first, so that the conversion of a negative int is exact.
LimbBase == 2^16
NLimbs == SizeTBits \div 16

\* Limb i of a non-negative int n (an int has at most two non-zero limbs).
IntLimb(n, i) ==
    IF i = 1 THEN n % LimbBase
    ELSE IF i = 2 THEN (n \div LimbBase) % LimbBase
    ELSE 0

\* The implicit conversion int -> size_t: n modulo 2^SizeTBits.  For n < 0
\* the result is the bitwise complement of (-n - 1), sign-extended.
ToSizeT(n) ==
    IF n >= 0
    THEN [i \in 1..NLimbs |-> IntLimb(n, i)]
    ELSE [i \in 1..NLimbs |-> (LimbBase - 1) - IntLimb((-n) - 1, i)]

\* a < b on size_t: the most significant differing limb decides.
SizeTLess(a, b) ==
    \E i \in 1..NLimbs :
        /\ a[i] < b[i]
        /\ \A j \in (i+1)..NLimbs : a[j] = b[j]

SizeTLeq(a, b) == a = b \/ SizeTLess(a, b)

\* --------------------------------------------------------------- state
VARIABLES
    phase,          \* "none": not constructed, "ok": constructed, "failed": constructor threw
    mCapacity,      \* size_t mCapacity
    mMinFreq,       \* int mMinFreq
    mKeysByFreq,    \* unordered_map<int, list<K>>: freq -> list of nodes, head first
    mKeyMetaByKey,  \* unordered_map<K, KeyMeta>: key -> [iter, freq, val]
    ub,             \* TRUE once a member ran into undefined behaviour
    lastOp,         \* the last constructor/get/put call, its arguments and its result
    recency,        \* history: present keys, most recently touched first
    written         \* history: key -> value it was last written with

vars == <<phase, mCapacity, mMinFreq, mKeysByFreq, mKeyMetaByKey, ub,
          lastOp, recency, written>>

\* The object's fields as one value, for the member operators below.
Self ==
    [mCapacity |-> mCapacity, mMinFreq |-> mMinFreq,
     mKeysByFreq |-> mKeysByFreq, mKeyMetaByKey |-> mKeyMetaByKey, ub |-> ub]

\* ----------------------------------------------------- std::unordered_map
\* m[k] read through operator[]: a missing key reads as the value-initialised d.
MapAt(m, k, d) == IF k \in DOMAIN m THEN m[k] ELSE d

\* The map after operator[] on k: a missing key is inserted with d.
MapIndex(m, k, d) == IF k \in DOMAIN m THEN m ELSE (k :> d) @@ m

\* m[k] = v
MapSet(m, k, v) == [j \in (DOMAIN m) \cup {k} |-> IF j = k THEN v ELSE m[j]]

\* m.erase(k)
MapErase(m, k) == [j \in (DOMAIN m) \ {k} |-> m[j]]

\* ------------------------------------------------------------- std::list
\* A list is a sequence of nodes [node, key]; an iterator is a node's identity.
\* The node push_front allocates for key k in the list of frequency f is named
\* <<k, f>>: the node made by a touch differs from the one it erased.
NewNode(key, freq) == <<key, freq>>

\* A value-initialised list iterator: designates no node.
SingularIter == <<>>

\* list.push_front(key), the new node being n
PushFront(l, key, n) == <<[node |-> n, key |-> key]>> \o l

\* list.begin() of a non-empty list
Begin(l) == l[1].node

\* list.back() of a non-empty list
Back(l) == l[Len(l)].key

\* list.pop_back() of a non-empty list
PopBack(l) == SubSeq(l, 1, Len(l) - 1)

\* Does iterator it designate a node of l?
IterIn(l, it) == \E i \in 1..Len(l) : l[i].node = it

\* list.erase(it), it designating a node of l
Erase(l, it) ==
    LET i == CHOOSE j \in 1..Len(l) : l[j].node = it
    IN  SubSeq(l, 1, i - 1) \o SubSeq(l, i + 1, Len(l))

\* KeyMeta{} as operator[] makes it for a missing key.
DefaultKeyMeta == [iter |-> SingularIter, freq |-> 0, val |-> DefaultVal]

\* ---------------------------------------------------------------- members
\* bool contains(K key) const
contains(c, key) == key \in DOMAIN c.mKeyMetaByKey

\* bool empty() const
empty(c) == DOMAIN c.mKeyMetaByKey = {}

\* size_t size() const
size(c) == ToSizeT(Cardinality(DOMAIN c.mKeyMetaByKey))

\* touch as it would be if it rebuilt the key's KeyMeta from the new iterator
\* and frequency alone, the value left value-initialised.
touch_dropsVal(c, key) ==
    LET meta0   == MapIndex(c.mKeyMetaByKey, key, DefaultKeyMeta)
        keyMeta == meta0[key]
        iter    == keyMeta.iter
        oldFreq == keyMeta.freq
        newFreq == oldFreq + 1
        oldList == MapAt(c.mKeysByFreq, oldFreq, <<>>)
        bad     == ~IterIn(oldList, iter)
        lists1  == MapSet(c.mKeysByFreq, oldFreq,
                          IF bad THEN oldList ELSE Erase(oldList, iter))
        lists2  == MapSet(lists1, newFreq,
                          PushFront(MapAt(lists1, newFreq, <<>>), key,
                                    NewNode(key, newFreq)))
        meta2   == [meta0 EXCEPT ![key] = [iter |-> Begin(lists2[newFreq]),
                                           freq |-> newFreq,
                                           val  |-> DefaultVal]]
        lists3  == MapIndex(lists2, c.mMinFreq, <<>>)
        minFreq == IF lists3[c.mMinFreq] = <<>>
                   THEN c.mMinFreq + 1
                   ELSE c.mMinFreq
    IN  [c EXCEPT !.mKeysByFreq = lists3,
                  !.mKeyMetaByKey = meta2,
                  !.mMinFreq = minFreq,
                  !.ub = c.ub \/ bad]

\* touch as it would be without the update of the stored frequency.
touch_keepsFreq(c, key) ==
    LET meta0   == MapIndex(c.mKeyMetaByKey, key, DefaultKeyMeta)
        keyMeta == meta0[key]
        iter    == keyMeta.iter
        oldFreq == keyMeta.freq
        newFreq == oldFreq + 1
        oldList == MapAt(c.mKeysByFreq, oldFreq, <<>>)
        bad     == ~IterIn(oldList, iter)
        lists1  == MapSet(c.mKeysByFreq, oldFreq,
                          IF bad THEN oldList ELSE Erase(oldList, iter))
        lists2  == MapSet(lists1, newFreq,
                          PushFront(MapAt(lists1, newFreq, <<>>), key,
                                    NewNode(key, newFreq)))
        meta2   == [meta0 EXCEPT ![key].iter = Begin(lists2[newFreq])]
        lists3  == MapIndex(lists2, c.mMinFreq, <<>>)
        minFreq == IF lists3[c.mMinFreq] = <<>>
                   THEN c.mMinFreq + 1
                   ELSE c.mMinFreq
    IN  [c EXCEPT !.mKeysByFreq = lists3,
                  !.mKeyMetaByKey = meta2,
                  !.mMinFreq = minFreq,
                  !.ub = c.ub \/ bad]

\* touch as it would be without the increment of mMinFreq.
touch_keepsMinFreq(c, key) ==
    LET meta0   == MapIndex(c.mKeyMetaByKey, key, DefaultKeyMeta)
        keyMeta == meta0[key]
        iter    == keyMeta.iter
        oldFreq == keyMeta.freq
        newFreq == oldFreq + 1
        oldList == MapAt(c.mKeysByFreq, oldFreq, <<>>)
        \* erase of an iterator that designates no node of the list is undefined
        bad     == ~IterIn(oldList, iter)
        lists1  == MapSet(c.mKeysByFreq, oldFreq,
                          IF bad THEN oldList ELSE Erase(oldList, iter))
        meta1   == [meta0 EXCEPT ![key].freq = newFreq]
        lists2  == MapSet(lists1, newFreq,
                          PushFront(MapAt(lists1, newFreq, <<>>), key,
                                    NewNode(key, newFreq)))
        meta2   == [meta1 EXCEPT ![key].iter = Begin(lists2[newFreq])]
        lists3  == MapIndex(lists2, c.mMinFreq, <<>>)
        minFreq == c.mMinFreq
    IN  [c EXCEPT !.mKeysByFreq = lists3,
                  !.mKeyMetaByKey = meta2,
                  !.mMinFreq = minFreq,
                  !.ub = c.ub \/ bad]

\* touch as it would be if it tested the list of the old frequency, where
\* touch tests the list of mMinFreq.
touch_bumpsOnOldEmpty(c, key) ==
    LET meta0   == MapIndex(c.mKeyMetaByKey, key, DefaultKeyMeta)
        keyMeta == meta0[key]
        iter    == keyMeta.iter
        oldFreq == keyMeta.freq
        newFreq == oldFreq + 1
        oldList == MapAt(c.mKeysByFreq, oldFreq, <<>>)
        \* erase of an iterator that designates no node of the list is undefined
        bad     == ~IterIn(oldList, iter)
        lists1  == MapSet(c.mKeysByFreq, oldFreq,
                          IF bad THEN oldList ELSE Erase(oldList, iter))
        meta1   == [meta0 EXCEPT ![key].freq = newFreq]
        lists2  == MapSet(lists1, newFreq,
                          PushFront(MapAt(lists1, newFreq, <<>>), key,
                                    NewNode(key, newFreq)))
        meta2   == [meta1 EXCEPT ![key].iter = Begin(lists2[newFreq])]
        lists3  == MapIndex(lists2, oldFreq, <<>>)
        minFreq == IF lists3[oldFreq] = <<>>
                   THEN c.mMinFreq + 1
                   ELSE c.mMinFreq
    IN  [c EXCEPT !.mKeysByFreq = lists3,
                  !.mKeyMetaByKey = meta2,
                  !.mMinFreq = minFreq,
                  !.ub = c.ub \/ bad]

\* touch as it would be if it added the key at the back of the new list.
touch_pushBack(c, key) ==
    LET meta0   == MapIndex(c.mKeyMetaByKey, key, DefaultKeyMeta)
        keyMeta == meta0[key]
        iter    == keyMeta.iter
        oldFreq == keyMeta.freq
        newFreq == oldFreq + 1
        oldList == MapAt(c.mKeysByFreq, oldFreq, <<>>)
        \* erase of an iterator that designates no node of the list is undefined
        bad     == ~IterIn(oldList, iter)
        lists1  == MapSet(c.mKeysByFreq, oldFreq,
                          IF bad THEN oldList ELSE Erase(oldList, iter))
        meta1   == [meta0 EXCEPT ![key].freq = newFreq]
        lists2  == MapSet(lists1, newFreq,
                          MapAt(lists1, newFreq, <<>>)
                             \o <<[node |-> NewNode(key, newFreq), key |-> key]>>)
        meta2   == [meta1 EXCEPT ![key].iter = NewNode(key, newFreq)]
        lists3  == MapIndex(lists2, c.mMinFreq, <<>>)
        minFreq == IF lists3[c.mMinFreq] = <<>>
                   THEN c.mMinFreq + 1
                   ELSE c.mMinFreq
    IN  [c EXCEPT !.mKeysByFreq = lists3,
                  !.mKeyMetaByKey = meta2,
                  !.mMinFreq = minFreq,
                  !.ub = c.ub \/ bad]

\* touch as it would be without the update of the stored iterator.
touch_keepsIter(c, key) ==
    LET meta0   == MapIndex(c.mKeyMetaByKey, key, DefaultKeyMeta)
        keyMeta == meta0[key]
        iter    == keyMeta.iter
        oldFreq == keyMeta.freq
        newFreq == oldFreq + 1
        oldList == MapAt(c.mKeysByFreq, oldFreq, <<>>)
        \* erase of an iterator that designates no node of the list is undefined
        bad     == ~IterIn(oldList, iter)
        lists1  == MapSet(c.mKeysByFreq, oldFreq,
                          IF bad THEN oldList ELSE Erase(oldList, iter))
        meta1   == [meta0 EXCEPT ![key].freq = newFreq]
        lists2  == MapSet(lists1, newFreq,
                          PushFront(MapAt(lists1, newFreq, <<>>), key,
                                    NewNode(key, newFreq)))
        meta2   == meta1
        lists3  == MapIndex(lists2, c.mMinFreq, <<>>)
        minFreq == IF lists3[c.mMinFreq] = <<>>
                   THEN c.mMinFreq + 1
                   ELSE c.mMinFreq
    IN  [c EXCEPT !.mKeysByFreq = lists3,
                  !.mKeyMetaByKey = meta2,
                  !.mMinFreq = minFreq,
                  !.ub = c.ub \/ bad]

\* touch as it would be if it removed the front of the old list, where touch
\* erases the element its iterator designates.
touch_erasesFront(c, key) ==
    LET meta0   == MapIndex(c.mKeyMetaByKey, key, DefaultKeyMeta)
        keyMeta == meta0[key]
        iter    == keyMeta.iter
        oldFreq == keyMeta.freq
        newFreq == oldFreq + 1
        oldList == MapAt(c.mKeysByFreq, oldFreq, <<>>)
        \* erase of an iterator that designates no node of the list is undefined
        bad     == ~IterIn(oldList, iter)
        lists1  == MapSet(c.mKeysByFreq, oldFreq,
                          IF bad THEN oldList ELSE Tail(oldList))
        meta1   == [meta0 EXCEPT ![key].freq = newFreq]
        lists2  == MapSet(lists1, newFreq,
                          PushFront(MapAt(lists1, newFreq, <<>>), key,
                                    NewNode(key, newFreq)))
        meta2   == [meta1 EXCEPT ![key].iter = Begin(lists2[newFreq])]
        lists3  == MapIndex(lists2, c.mMinFreq, <<>>)
        minFreq == IF lists3[c.mMinFreq] = <<>>
                   THEN c.mMinFreq + 1
                   ELSE c.mMinFreq
    IN  [c EXCEPT !.mKeysByFreq = lists3,
                  !.mKeyMetaByKey = meta2,
                  !.mMinFreq = minFreq,
                  !.ub = c.ub \/ bad]

\* void touch(K key)
touch(c, key) ==
    LET meta0   == MapIndex(c.mKeyMetaByKey, key, DefaultKeyMeta)
        keyMeta == meta0[key]
        iter    == keyMeta.iter
        oldFreq == keyMeta.freq
        newFreq == oldFreq + 1
        oldList == MapAt(c.mKeysByFreq, oldFreq, <<>>)
        \* erase of an iterator that designates no node of the list is undefined
        bad     == ~IterIn(oldList, iter)
        lists1  == MapSet(c.mKeysByFreq, oldFreq,
                          IF bad THEN oldList ELSE Erase(oldList, iter))
        meta1   == [meta0 EXCEPT ![key].freq = newFreq]
        lists2  == MapSet(lists1, newFreq,
                          PushFront(MapAt(lists1, newFreq, <<>>), key,
                                    NewNode(key, newFreq)))
        meta2   == [meta1 EXCEPT ![key].iter = Begin(lists2[newFreq])]
        lists3  == MapIndex(lists2, c.mMinFreq, <<>>)
        minFreq == IF lists3[c.mMinFreq] = <<>>
                   THEN c.mMinFreq + 1
                   ELSE c.mMinFreq
    IN  [c EXCEPT !.mKeysByFreq = lists3,
                  !.mKeyMetaByKey = meta2,
                  !.mMinFreq = minFreq,
                  !.ub = c.ub \/ bad]

\* evict as it would be if it took the front of the list, the most recently
\* used key, where evict takes the back.
evict_front(c) ==
    LET lists0 == MapIndex(c.mKeysByFreq, c.mMinFreq, <<>>)
        l      == lists0[c.mMinFreq]
    IN  IF l = <<>>
        THEN [c EXCEPT !.mKeysByFreq = lists0, !.ub = TRUE]
        ELSE [c EXCEPT !.mKeyMetaByKey = MapErase(c.mKeyMetaByKey, l[1].key),
                       !.mKeysByFreq = MapSet(lists0, c.mMinFreq, Tail(l))]

\* evict as it would be without the erase of the key from mKeyMetaByKey.
evict_keepsMeta(c) ==
    LET lists0 == MapIndex(c.mKeysByFreq, c.mMinFreq, <<>>)
        l      == lists0[c.mMinFreq]
    IN  IF l = <<>>
        \* back() and pop_back() of an empty list are undefined
        THEN [c EXCEPT !.mKeysByFreq = lists0, !.ub = TRUE]
        ELSE [c EXCEPT !.mKeysByFreq = MapSet(lists0, c.mMinFreq, PopBack(l))]

\* void evict()
evict(c) ==
    LET lists0 == MapIndex(c.mKeysByFreq, c.mMinFreq, <<>>)
        l      == lists0[c.mMinFreq]
    IN  IF l = <<>>
        \* back() and pop_back() of an empty list are undefined
        THEN [c EXCEPT !.mKeysByFreq = lists0, !.ub = TRUE]
        ELSE [c EXCEPT !.mKeyMetaByKey = MapErase(c.mKeyMetaByKey, Back(l)),
                       !.mKeysByFreq = MapSet(lists0, c.mMinFreq, PopBack(l))]

\* put as it would be if it evicted only once size() exceeded the capacity.
put_evictWhenOver(c, key, val) ==
    IF contains(c, key)
    THEN LET t == touch(c, key)
         IN  [t EXCEPT !.mKeyMetaByKey[key].val = val]
    ELSE LET c1 == IF SizeTLess(c.mCapacity, size(c)) THEN evict(c) ELSE c
             l1 == PushFront(MapAt(c1.mKeysByFreq, 1, <<>>), key, NewNode(key, 1))
             curKeyMetaData == [iter |-> Begin(l1), freq |-> 1, val |-> val]
         IN  [c1 EXCEPT !.mMinFreq = 1,
                        !.mKeysByFreq = MapSet(c1.mKeysByFreq, 1, l1),
                        !.mKeyMetaByKey = MapSet(c1.mKeyMetaByKey, key, curKeyMetaData)]

\* put as it would be if the new KeyMeta were built without val.
put_insertDropsVal(c, key, val) ==
    IF contains(c, key)
    THEN LET t == touch(c, key)
         IN  [t EXCEPT !.mKeyMetaByKey[key].val = val]
    ELSE LET c1 == IF size(c) = c.mCapacity THEN evict(c) ELSE c
             l1 == PushFront(MapAt(c1.mKeysByFreq, 1, <<>>), key, NewNode(key, 1))
             curKeyMetaData == [iter |-> Begin(l1), freq |-> 1, val |-> DefaultVal]
         IN  [c1 EXCEPT !.mMinFreq = 1,
                        !.mKeysByFreq = MapSet(c1.mKeysByFreq, 1, l1),
                        !.mKeyMetaByKey = MapSet(c1.mKeyMetaByKey, key, curKeyMetaData)]

\* put as it would be if the capacity test came before the test for an
\* existing key.
put_evictFirst(c, key, val) ==
    LET c1 == IF size(c) = c.mCapacity THEN evict(c) ELSE c
    IN  IF contains(c1, key)
        THEN LET t == touch(c1, key)
             IN  [t EXCEPT !.mKeyMetaByKey[key].val = val]
        ELSE LET l1 == PushFront(MapAt(c1.mKeysByFreq, 1, <<>>), key, NewNode(key, 1))
                 curKeyMetaData == [iter |-> Begin(l1), freq |-> 1, val |-> val]
             IN  [c1 EXCEPT !.mMinFreq = 1,
                            !.mKeysByFreq = MapSet(c1.mKeysByFreq, 1, l1),
                            !.mKeyMetaByKey = MapSet(c1.mKeyMetaByKey, key, curKeyMetaData)]

\* put as it would be if it inserted first and evicted afterwards, once
\* size() exceeded the capacity.
put_evictAfterInsert(c, key, val) ==
    IF contains(c, key)
    THEN LET t == touch(c, key)
         IN  [t EXCEPT !.mKeyMetaByKey[key].val = val]
    ELSE LET l1 == PushFront(MapAt(c.mKeysByFreq, 1, <<>>), key, NewNode(key, 1))
             curKeyMetaData == [iter |-> Begin(l1), freq |-> 1, val |-> val]
             c1 == [c EXCEPT !.mMinFreq = 1,
                             !.mKeysByFreq = MapSet(c.mKeysByFreq, 1, l1),
                             !.mKeyMetaByKey = MapSet(c.mKeyMetaByKey, key, curKeyMetaData)]
         IN  IF SizeTLess(c1.mCapacity, size(c1)) THEN evict(c1) ELSE c1

\* put as it would be without the reset of mMinFreq to 1 on an insert.
put_keepsMinFreq(c, key, val) ==
    IF contains(c, key)
    THEN LET t == touch(c, key)
         IN  [t EXCEPT !.mKeyMetaByKey[key].val = val]
    ELSE LET c1 == IF size(c) = c.mCapacity THEN evict(c) ELSE c
             l1 == PushFront(MapAt(c1.mKeysByFreq, 1, <<>>), key, NewNode(key, 1))
             curKeyMetaData == [iter |-> Begin(l1), freq |-> 1, val |-> val]
         IN  [c1 EXCEPT !.mKeysByFreq = MapSet(c1.mKeysByFreq, 1, l1),
                        !.mKeyMetaByKey = MapSet(c1.mKeyMetaByKey, key, curKeyMetaData)]

\* put as it would be if it added a new key at the back of the list.
put_pushBack(c, key, val) ==
    IF contains(c, key)
    THEN LET t == touch(c, key)
         IN  [t EXCEPT !.mKeyMetaByKey[key].val = val]
    ELSE LET c1 == IF size(c) = c.mCapacity THEN evict(c) ELSE c
             l1 == MapAt(c1.mKeysByFreq, 1, <<>>) \o <<[node |-> NewNode(key, 1), key |-> key]>>
             curKeyMetaData == [iter |-> NewNode(key, 1), freq |-> 1, val |-> val]
         IN  [c1 EXCEPT !.mMinFreq = 1,
                        !.mKeysByFreq = MapSet(c1.mKeysByFreq, 1, l1),
                        !.mKeyMetaByKey = MapSet(c1.mKeyMetaByKey, key, curKeyMetaData)]

\* void put(K key, V val)
put(c, key, val) ==
    IF contains(c, key)
    THEN LET t == touch(c, key)
         IN  [t EXCEPT !.mKeyMetaByKey[key].val = val]
    ELSE LET c1 == IF size(c) = c.mCapacity THEN evict(c) ELSE c
             l1 == PushFront(MapAt(c1.mKeysByFreq, 1, <<>>), key, NewNode(key, 1))
             curKeyMetaData == [iter |-> Begin(l1), freq |-> 1, val |-> val]
         IN  [c1 EXCEPT !.mMinFreq = 1,
                        !.mKeysByFreq = MapSet(c1.mKeysByFreq, 1, l1),
                        !.mKeyMetaByKey = MapSet(c1.mKeyMetaByKey, key, curKeyMetaData)]

\* get as it would be if a miss returned the default value and stored nothing.
get_missStoresNothing(c, key) ==
    IF contains(c, key)
    THEN LET t == touch(c, key)
         IN  [c |-> t, ret |-> t.mKeyMetaByKey[key].val]
    ELSE [c |-> c, ret |-> DefaultVal]

\* get as it would be if a miss put the default value and then went on to
\* the hit path.
get_missThenHit(c, key) ==
    LET c0 == IF contains(c, key) THEN c ELSE put(c, key, DefaultVal)
        t  == touch(c0, key)
    IN  [c |-> t, ret |-> t.mKeyMetaByKey[key].val]

\* V get(K key): the object afterwards and the value returned
get(c, key) ==
    IF contains(c, key)
    THEN LET t == touch(c, key)
         IN  [c |-> t, ret |-> t.mKeyMetaByKey[key].val]
    ELSE [c |-> put(c, key, DefaultVal), ret |-> DefaultVal]

\* ------------------------------------------------------------------ history
\* s without the keys outside keep
Restrict(s, keep) ==
    LET Kept(k) == k \in keep IN SelectSeq(s, Kept)

\* The recency order after key was touched and only the keys of now remain.
Touched(s, key, now) == <<key>> \o Restrict(s, now \ {key})

\* Position of key k in s (1 is the most recently touched).
Pos(s, k) == CHOOSE i \in 1..Len(s) : s[i] = k

\* The call record kept in lastOp.
Call(op, arg, ret, hit, evicted, threw) ==
    [op |-> op, arg |-> arg, ret |-> ret, hit |-> hit,
     evicted |-> evicted, threw |-> threw]

\* --------------------------------------------------------------------- Init
Init ==
    /\ phase = "none"
    /\ mCapacity = ToSizeT(0)
    /\ mMinFreq = 0
    /\ mKeysByFreq = <<>>
    /\ mKeyMetaByKey = <<>>
    /\ ub = FALSE
    /\ lastOp = Call("none", <<>>, <<>>, FALSE, {}, FALSE)
    /\ recency = <<>>
    /\ written = <<>>

\* ------------------------------------------------------------------ actions
\* LFUCache(size_t capacity), called with the int argument capacity
Construct(capacity) ==
    /\ phase = "none"
    /\ LET cap == ToSizeT(capacity)
       IN  IF SizeTLeq(cap, ToSizeT(0))
           THEN /\ phase' = "failed"
                /\ lastOp' = Call("construct", <<capacity>>, <<>>, FALSE, {}, TRUE)
                /\ UNCHANGED <<mCapacity, mMinFreq>>
           ELSE /\ phase' = "ok"
                /\ mCapacity' = cap
                /\ mMinFreq' = 0
                /\ lastOp' = Call("construct", <<capacity>>, <<>>, FALSE, {}, FALSE)
    /\ UNCHANGED <<mKeysByFreq, mKeyMetaByKey, ub, recency, written>>

\* The object's fields become those of c.
Becomes(c) ==
    /\ mCapacity' = c.mCapacity
    /\ mMinFreq' = c.mMinFreq
    /\ mKeysByFreq' = c.mKeysByFreq
    /\ mKeyMetaByKey' = c.mKeyMetaByKey
    /\ ub' = c.ub

\* A call is made on a constructed object that has not run into undefined
\* behaviour; a touch is made only while the frequency is below the bound.
Callable(key) ==
    /\ phase = "ok"
    /\ ~ub
    /\ contains(Self, key) => mKeyMetaByKey[key].freq < MaxFreq

\* cache.get(key)
Get(key) ==
    /\ Callable(key)
    /\ LET r == get(Self, key)
           now == DOMAIN r.c.mKeyMetaByKey
       IN  /\ Becomes(r.c)
           /\ lastOp' = Call("get", <<key>>, <<r.ret>>, contains(Self, key),
                             (DOMAIN mKeyMetaByKey) \ now, FALSE)
           /\ recency' = Touched(recency, key, now)
           /\ written' = [k \in now |->
                            IF k = key /\ ~contains(Self, key)
                            THEN DefaultVal ELSE written[k]]
    /\ UNCHANGED phase

\* cache.put(key, val)
Put(key, val) ==
    /\ Callable(key)
    /\ LET c == put(Self, key, val)
           now == DOMAIN c.mKeyMetaByKey
       IN  /\ Becomes(c)
           /\ lastOp' = Call("put", <<key, val>>, <<>>, contains(Self, key),
                             (DOMAIN mKeyMetaByKey) \ now, FALSE)
           /\ recency' = Touched(recency, key, now)
           /\ written' = [k \in now |-> IF k = key THEN val ELSE written[k]]
    /\ UNCHANGED phase

\* cache.contains(key), a const member: the object is left as it is
Contains(key) ==
    /\ phase = "ok"
    /\ ~ub
    /\ contains(Self, key) \in BOOLEAN
    /\ UNCHANGED vars

\* cache.size(), a const member
Size ==
    /\ phase = "ok"
    /\ ~ub
    /\ SizeTLeq(ToSizeT(0), size(Self))
    /\ UNCHANGED vars

\* cache.empty(), a const member
Empty ==
    /\ phase = "ok"
    /\ ~ub
    /\ empty(Self) \in BOOLEAN
    /\ UNCHANGED vars

\* The calls on a constructed cache.
Calls ==
    \/ \E key \in Keys : Get(key)
    \/ \E key \in Keys, val \in Vals : Put(key, val)
    \/ \E key \in Keys : Contains(key)
    \/ Size
    \/ Empty

\* A cache constructed with a capacity argument >= 0, then called.
Next ==
    \/ \E capacity \in CapArgs : Construct(capacity)
    \/ Calls

Spec == Init /\ [][Next]_vars

\* The same, the capacity argument possibly negative.
NextAnyCapacity ==
    \/ \E capacity \in CapArgs \cup {NegativeCapacity} : Construct(capacity)
    \/ Calls

SpecAnyCapacity == Init /\ [][NextAnyCapacity]_vars

\* cache.touch(key): touch is declared under public: like get and put
Touch(key) ==
    /\ Callable(key)
    /\ LET c == touch(Self, key)
           now == DOMAIN c.mKeyMetaByKey
       IN  /\ Becomes(c)
           /\ lastOp' = Call("touch", <<key>>, <<>>, contains(Self, key),
                             (DOMAIN mKeyMetaByKey) \ now, FALSE)
           /\ recency' = Touched(recency, key, now)
           /\ written' = [k \in now |->
                            IF k \in DOMAIN written THEN written[k] ELSE DefaultVal]
    /\ UNCHANGED phase

\* cache.evict(): evict is declared under public: too
Evict ==
    /\ phase = "ok"
    /\ ~ub
    /\ LET c == evict(Self)
           now == DOMAIN c.mKeyMetaByKey
       IN  /\ Becomes(c)
           /\ lastOp' = Call("evict", <<>>, <<>>, FALSE,
                             (DOMAIN mKeyMetaByKey) \ now, FALSE)
           /\ recency' = Restrict(recency, now)
           /\ written' = [k \in now |-> written[k]]
    /\ UNCHANGED phase

\* Every member a caller can call: the class has no private member function.
NextMembers ==
    \/ \E capacity \in CapArgs : Construct(capacity)
    \/ Calls
    \/ \E key \in Keys : Touch(key)
    \/ Evict

SpecMembers == Init /\ [][NextMembers]_vars

\* A cache of capacity MaxCap + 1 called with MaxKey + 1 keys: two keys other
\* than the one called can be present together, before and after an eviction.
WideCap == MaxCap + 1
WideKeys == 1..(MaxKey + 1)

\* A call of the wide cache on key: a present key is touched only while its
\* frequency is below MaxFreq - 1.
WideCallable(key) ==
    contains(Self, key) => mKeyMetaByKey[key].freq < MaxFreq - 1

\* The wide cache is constructed, then read and written; each key is written
\* with one value, key modulo the number of values.
NextWide ==
    \/ Construct(WideCap)
    \/ \E key \in WideKeys : WideCallable(key) /\ Get(key)
    \/ \E key \in WideKeys : WideCallable(key) /\ Put(key, key % (MaxVal + 1))

SpecWide == Init /\ [][NextWide]_vars

\* ------------------------------------------------------------------ claims
\* The keys present, and the key of the last get/put.
Present == DOMAIN mKeyMetaByKey
LastKey == lastOp.arg[1]

\* C1: after the constructor and after every call on a constructed cache,
\* size() <= capacity.
CapacityBound ==
    phase = "ok" => SizeTLeq(size(Self), mCapacity)

\* Reached: a put of a new key into a full cache of capacity 2 evicted a key
\* and left the cache full.
CapacityBoundWitness ==
    /\ phase = "ok"
    /\ mCapacity = ToSizeT(2)
    /\ size(Self) = mCapacity
    /\ lastOp.op = "put"
    /\ ~lastOp.hit
    /\ lastOp.evicted # {}

\* C2: a key that a get or put removes was present before the call, no key
\* present before the call had a lower frequency, and every key that had the
\* same frequency was touched more recently than it.
LFUEviction ==
    [][\A e \in Present \ Present' :
          \A j \in Present :
             /\ mKeyMetaByKey[e].freq <= mKeyMetaByKey[j].freq
             /\ mKeyMetaByKey[j].freq = mKeyMetaByKey[e].freq
                  => Pos(recency, j) <= Pos(recency, e)]_vars

\* Reached: an insert evicted a key although a key of frequency 1 other than
\* the new one stayed: the evicted key tied with it and recency decided.
LFUEvictionWitness ==
    /\ phase = "ok"
    /\ lastOp.op \in {"get", "put"}
    /\ lastOp.evicted # {}
    /\ \E j \in Present : j # LastKey /\ mKeyMetaByKey[j].freq = 1

\* C3: a constructor call with a capacity argument <= 0 throws and yields no
\* cache; one with a positive argument yields a cache.
InvalidCapacityRejected ==
    lastOp.op = "construct" =>
        IF lastOp.arg[1] <= 0
        THEN lastOp.threw /\ phase = "failed"
        ELSE ~lastOp.threw /\ phase = "ok"

\* C4: right after put(k, v), get(k) returns v, whether k was absent or
\* present before the put and whether or not the put evicted.
RoundTrip ==
    lastOp.op = "put" => get(Self, LastKey).ret = lastOp.arg[2]

\* Reached: put(k, v) with v not the default value inserted k into a full
\* cache of capacity 1, evicting the key that was there.
RoundTripWitness ==
    /\ lastOp.op = "put"
    /\ ~lastOp.hit
    /\ lastOp.evicted # {}
    /\ mCapacity = ToSizeT(1)
    /\ lastOp.arg[2] # DefaultVal

\* C5: a get of an absent key returns the default value, and the key is
\* present right afterwards.
MissFillsDefault ==
    (lastOp.op = "get" /\ ~lastOp.hit) =>
        /\ lastOp.ret = <<DefaultVal>>
        /\ contains(Self, LastKey)

\* Reached: a get of an absent key on a full cache of capacity 1.
MissFillsDefaultWitness ==
    /\ lastOp.op = "get"
    /\ ~lastOp.hit
    /\ lastOp.evicted # {}
    /\ mCapacity = ToSizeT(1)

\* C6: every present key stores the value it was last written with (by the
\* latest put on it, or the default value by the get that inserted it), and
\* a get of a present key returns that value.
GetReturnsCurrent ==
    /\ \A k \in Present : mKeyMetaByKey[k].val = written[k]
    /\ (lastOp.op = "get" /\ lastOp.hit) => lastOp.ret = <<written[LastKey]>>

\* Reached: a get of a key touched at least twice since its insertion
\* returned a value other than the default, while another key holds the default.
GetReturnsCurrentWitness ==
    /\ lastOp.op = "get"
    /\ lastOp.hit
    /\ lastOp.ret # <<DefaultVal>>
    /\ mKeyMetaByKey[LastKey].freq >= 3
    /\ \E j \in Present : j # LastKey /\ mKeyMetaByKey[j].val = DefaultVal

\* C7: put(k, v) on a present key k leaves the set of present keys, hence
\* size(), as it was and stores v for k.
UpdatePutFrame ==
    [][(lastOp'.op = "put" /\ lastOp'.arg[1] \in Present) =>
          /\ Present' = Present
          /\ size(Self)' = size(Self)
          /\ mKeyMetaByKey'[lastOp'.arg[1]].val = lastOp'.arg[2]]_vars

\* Reached: a put on a present key of a full cache of capacity 2 changed its
\* value from the default.
UpdatePutFrameWitness ==
    /\ lastOp.op = "put"
    /\ lastOp.hit
    /\ mCapacity = ToSizeT(2)
    /\ size(Self) = mCapacity
    /\ lastOp.arg[2] # DefaultVal

\* C8: a key present before and after a step has its frequency raised by
\* exactly 1 if the step is a get or put of that key, and unchanged otherwise.
TouchMonotone ==
    [][\A j \in Present \cap Present' :
          mKeyMetaByKey'[j].freq =
              IF lastOp'.op \in {"get", "put"} /\ lastOp'.arg[1] = j
              THEN mKeyMetaByKey[j].freq + 1
              ELSE mKeyMetaByKey[j].freq]_vars

\* Reached: a hit brought a key to frequency 3 while another key stayed at 1.
TouchMonotoneWitness ==
    /\ lastOp.op \in {"get", "put"}
    /\ lastOp.hit
    /\ mKeyMetaByKey[LastKey].freq = 3
    /\ \E j \in Present : mKeyMetaByKey[j].freq = 1

\* C9: a put of an absent key k into a full cache removes exactly one key,
\* adds k and leaves size() = capacity; into a cache that is not full it
\* removes nothing and adds k, size() growing by 1.
InsertPutEffect ==
    [][(lastOp'.op = "put" /\ lastOp'.arg[1] \notin Present) =>
          LET k == lastOp'.arg[1]
              gone == Present \ Present'
          IN  IF size(Self) = mCapacity
              THEN /\ Cardinality(gone) = 1
                   /\ k \notin gone
                   /\ Present' = (Present \ gone) \cup {k}
                   /\ size(Self)' = mCapacity'
              ELSE /\ gone = {}
                   /\ Present' = Present \cup {k}
                   /\ Cardinality(Present') = Cardinality(Present) + 1]_vars

\* Reached: a put of a new key evicted the one key of a cache of capacity 1
\* that had been touched.
InsertPutEffectWitness ==
    /\ lastOp.op = "put"
    /\ ~lastOp.hit
    /\ lastOp.evicted # {}
    /\ mCapacity = ToSizeT(1)
    /\ Present = {LastKey}
    /\ \E f \in DOMAIN mKeysByFreq : f > 1

\* C10: a get of an absent key k leaves the cache exactly as put(k, default)
\* would: capacity, minimum frequency, buckets and key metadata.
MissIsPutDefault ==
    [][(lastOp'.op = "get" /\ lastOp'.arg[1] \notin Present) =>
          Self' = put(Self, lastOp'.arg[1], DefaultVal)]_vars

\* Reached: a get of an absent key on a full cache of capacity 2 evicted a
\* key and left one of frequency above 1.
MissIsPutDefaultWitness ==
    /\ lastOp.op = "get"
    /\ ~lastOp.hit
    /\ lastOp.evicted # {}
    /\ mCapacity = ToSizeT(2)
    /\ \E j \in Present : mKeyMetaByKey[j].freq > 1

\* The keys of list l, head first.
KeysOf(l) == [i \in 1..Len(l) |-> l[i].key]

\* The list of frequency f of the cache, empty when the map has none.
Bucket(f) == MapAt(mKeysByFreq, f, <<>>)

\* C11 (I3): after the constructor and after every get/put/contains/size/empty
\* call, a non-empty cache has mMinFreq equal to the smallest frequency whose
\* list is non-empty, which is the smallest frequency of a present key.
MinFreqIsMinimum ==
    (phase = "ok" /\ Present # {}) =>
        /\ Bucket(mMinFreq) # <<>>
        /\ \A f \in DOMAIN mKeysByFreq : mKeysByFreq[f] # <<>> => mMinFreq <= f
        /\ \E k \in Present : mKeyMetaByKey[k].freq = mMinFreq
        /\ \A k \in Present : mMinFreq <= mKeyMetaByKey[k].freq

\* Reached: a hit emptied the list of the minimum frequency and mMinFreq
\* went up to 2, the lists of frequency 2 and 3 both holding a key.
MinFreqIsMinimumWitness ==
    /\ phase = "ok"
    /\ lastOp.hit
    /\ mMinFreq = 2
    /\ Bucket(2) # <<>>
    /\ Bucket(3) # <<>>

\* C12 (I1): after every such call, each present key is in the list of its
\* recorded frequency and in no other place of any list, every key of a list
\* is present, and the lists hold size() keys in all.
IndexMatchesBuckets ==
    phase = "ok" =>
        /\ \A k \in Present :
              \A f \in DOMAIN mKeysByFreq :
                 Cardinality({i \in 1..Len(mKeysByFreq[f]) : mKeysByFreq[f][i].key = k})
                    = IF f = mKeyMetaByKey[k].freq THEN 1 ELSE 0
        /\ \A k \in Present : mKeyMetaByKey[k].freq \in DOMAIN mKeysByFreq
        /\ \A f \in DOMAIN mKeysByFreq :
              \A i \in 1..Len(mKeysByFreq[f]) : mKeysByFreq[f][i].key \in Present
        /\ \A n \in 0..MaxKey :
              size(Self) = ToSizeT(n) =>
                 Cardinality({<<f, i>> \in (DOMAIN mKeysByFreq) \X (1..MaxKey) :
                                 i <= Len(mKeysByFreq[f])}) = n

\* Reached: after an eviction a full cache of capacity 2 holds its keys in
\* two different lists.
IndexMatchesBucketsWitness ==
    /\ phase = "ok"
    /\ lastOp.evicted # {}
    /\ mCapacity = ToSizeT(2)
    /\ size(Self) = mCapacity
    /\ \E j, k \in Present : mKeyMetaByKey[j].freq # mKeyMetaByKey[k].freq

\* C13: whenever the cache is full, so that put of an absent key runs evict,
\* the list of mMinFreq is non-empty: evict's back() and pop_back() are
\* defined; and no get or put has run into undefined behaviour.
EvictOnNonEmptyBucket ==
    phase = "ok" =>
        /\ ~ub
        /\ size(Self) = mCapacity =>
              /\ Bucket(mMinFreq) # <<>>
              /\ ~evict(Self).ub

\* Reached: put evicted from a cache of capacity 1 whose key had been
\* touched, so that the list evict took it from was not that of frequency 1.
EvictOnNonEmptyBucketWitness ==
    /\ lastOp.op = "put"
    /\ lastOp.evicted # {}
    /\ mCapacity = ToSizeT(1)
    /\ 3 \in DOMAIN mKeysByFreq

\* C14: touch of a present key of frequency f leaves mMinFreq + 1 if the
\* list of f is empty after the touch and f = mMinFreq, and mMinFreq
\* otherwise.
TouchMinFreqRule ==
    phase = "ok" =>
        \A k \in Present :
           LET f == mKeyMetaByKey[k].freq
               t == touch(Self, k)
           IN  t.mMinFreq =
                  IF MapAt(t.mKeysByFreq, f, <<>>) = <<>> /\ f = mMinFreq
                  THEN mMinFreq + 1
                  ELSE mMinFreq

\* Reached: a hit on the only key of frequency 2 emptied that list while a
\* key of frequency 1 was present: mMinFreq stayed 1.
TouchMinFreqRuleWitness ==
    /\ lastOp.hit
    /\ mMinFreq = 1
    /\ mKeyMetaByKey[LastKey].freq = 3
    /\ Bucket(2) = <<>>
    /\ Bucket(1) # <<>>

\* C15: a step removes an entry only if it is the insert of an absent key
\* (by put, or by get on a miss) into a full cache, and then it removes
\* exactly one entry and the new key is present; no other call removes one.
EvictionOnlyBeforeInsert ==
    [][(Present \ Present' # {}) =>
          /\ lastOp'.op \in {"get", "put"}
          /\ lastOp'.arg[1] \notin Present
          /\ lastOp'.arg[1] \in Present'
          /\ size(Self) = mCapacity
          /\ Cardinality(Present \ Present') = 1]_vars

\* C16: after every such call, the keys of each list are in the order of
\* their last touch (insertion, get-hit or update-put), the most recently
\* touched at the front.
BucketsInRecencyOrder ==
    phase = "ok" =>
        \A f \in DOMAIN mKeysByFreq :
           \A i, j \in 1..Len(mKeysByFreq[f]) :
              i < j => Pos(recency, mKeysByFreq[f][i].key)
                         < Pos(recency, mKeysByFreq[f][j].key)

\* Reached: after a hit the list of frequency 3 holds two keys, the one
\* touched last at the front, and the list of frequency 2 was emptied.
BucketsInRecencyOrderWitness ==
    /\ lastOp.hit
    /\ Len(Bucket(3)) = 2
    /\ Bucket(3)[1].key = LastKey
    /\ Bucket(3)[1].key < Bucket(3)[2].key
    /\ Bucket(2) = <<>>

\* C17: after the insert of an absent key by put or by a get-miss, the key
\* has frequency 1 and is the front of the list of frequency 1, and
\* mMinFreq is 1.
InsertAtFrontOfBucket1 ==
    (lastOp.op \in {"get", "put"} /\ ~lastOp.hit) =>
        /\ mKeyMetaByKey[LastKey].freq = 1
        /\ Bucket(1) # <<>>
        /\ Bucket(1)[1].key = LastKey
        /\ mMinFreq = 1

\* Reached: a key was inserted without eviction next to a single key of
\* frequency above 1: mMinFreq was above 1 before and is 1 now.
InsertAtFrontOfBucket1Witness ==
    /\ lastOp.op \in {"get", "put"}
    /\ ~lastOp.hit
    /\ lastOp.evicted = {}
    /\ Cardinality(Present) = 2
    /\ \E j \in Present : mKeyMetaByKey[j].freq > 1

\* C18 (I4): after every such call, the iterator stored for a present key
\* designates an element of the list of the key's frequency, that element
\* holds the key, and the iterator designates no element of any other list.
HandlesDesignateOwnNode ==
    phase = "ok" =>
        \A k \in Present :
           LET it == mKeyMetaByKey[k].iter
               f  == mKeyMetaByKey[k].freq
           IN  /\ IterIn(Bucket(f), it)
               /\ \A g \in DOMAIN mKeysByFreq :
                     \A i \in 1..Len(mKeysByFreq[g]) :
                        mKeysByFreq[g][i].node = it =>
                           g = f /\ mKeysByFreq[g][i].key = k

\* Reached: after a hit the touched key, of frequency 3, shares its list
\* with another key, in front of which it was added.
HandlesDesignateOwnNodeWitness ==
    /\ lastOp.hit
    /\ mKeyMetaByKey[LastKey].freq = 3
    /\ Len(Bucket(3)) = 2
    /\ mKeyMetaByKey[LastKey].iter = Begin(Bucket(3))

\* C19: no constructor/get/put/contains/size/empty call lowers size(): the
\* number of present keys never goes down, a non-empty cache stays
\* non-empty and a full cache stays full.
SizeNeverDecreases ==
    [][/\ Cardinality(Present') >= Cardinality(Present)
       /\ (Present # {} => Present' # {})
       /\ ((phase = "ok" /\ size(Self) = mCapacity) => size(Self)' = mCapacity')]_vars

\* Reached: a get-miss on a full cache of capacity 2 left it full, both keys
\* at frequency 1.
SizeNeverDecreasesWitness ==
    /\ lastOp.op = "get"
    /\ ~lastOp.hit
    /\ lastOp.evicted # {}
    /\ mCapacity = ToSizeT(2)
    /\ size(Self) = mCapacity
    /\ \A j \in Present : mKeyMetaByKey[j].freq = 1

\* C20: a get or put of key k leaves every other key that stays present
\* with its value and frequency, leaves the order of those keys within each
\* list as it was, and removes at most one key other than k.  Stated of the
\* wide cache, where two other keys share a list.
OthersUntouched ==
    [][lastOp'.op \in {"get", "put"} =>
          LET k == lastOp'.arg[1]
              others == (Present \cap Present') \ {k}
          IN  /\ \A j \in others :
                    /\ mKeyMetaByKey'[j].val = mKeyMetaByKey[j].val
                    /\ mKeyMetaByKey'[j].freq = mKeyMetaByKey[j].freq
              /\ \A f \in (DOMAIN mKeysByFreq) \cup (DOMAIN mKeysByFreq') :
                    Restrict(KeysOf(MapAt(mKeysByFreq, f, <<>>)), others)
                       = Restrict(KeysOf(MapAt(mKeysByFreq', f, <<>>)), others)
              /\ Cardinality(Present \ (Present' \cup {k})) <= 1]_vars

\* Reached: a put of a new key into a full cache of capacity MaxCap + 1
\* evicted the one key of frequency 1 and left two other keys, both of
\* frequency 2 and one with a value other than the default, in one list.
OthersUntouchedWitness ==
    /\ lastOp.op = "put"
    /\ ~lastOp.hit
    /\ lastOp.evicted # {}
    /\ mCapacity = ToSizeT(WideCap)
    /\ Len(Bucket(1)) = 1
    /\ Len(Bucket(2)) = 2
    /\ \E i \in 1..2 : mKeyMetaByKey[Bucket(2)[i].key].val # DefaultVal

\* ------------------------------------------------------------- type sanity
TypeOK ==
    /\ phase \in {"none", "ok", "failed"}
    /\ ub = FALSE
    /\ mMinFreq \in 0..MaxFreq

====
